---- MODULE Spec2Model ----
(***************************************************************************)
(* Model of the Vertex credential subsystem of serve.py: the process-wide  *)
(* token cache (_VERTEX_HEADERS), the on-demand refresh                    *)
(* (_sync_refresh_vertex_token), the connection builder (_connect), the    *)
(* metadata updater (_update_client_grpc_metadata), the background loop    *)
(* (_refresh_vertex_oauth_loop) and its starter                            *)
(* (_maybe_start_vertex_oauth_refresher).                                  *)
(*                                                                         *)
(* Threads: the main thread (module import, then the asyncio event loop,   *)
(* on which _call_tool_request runs each tool body synchronously, so one   *)
(* tool call at a time) and the daemon thread of the background loop.      *)
(* Python values: str is a TLA+ string, None is the string NONE, a dict is *)
(* a function on its keys.                                                 *)
(***************************************************************************)
EXTENDS Integers, Sequences, FiniteSets, TLC

VARIABLES
    environ,              \* os.environ
    files,                \* the file system: path -> parsed JSON of the file
    VERTEX_HEADERS,       \* _VERTEX_HEADERS, the credential cache
    VERTEX_USER_PROJECT,  \* _VERTEX_USER_PROJECT
    VERTEX_REFRESH_THREAD_STARTED, \* _VERTEX_REFRESH_THREAD_STARTED
    main,                 \* the main thread: calls of the starter, threads started
    loop,                 \* the background thread: position and locals
    h,                    \* the tool call running on the event loop: position and locals
    client,               \* the Weaviate client of the running tool call
    provider,             \* the identity provider: exchanges invoked, in flight, issued
    now,                  \* wall clock, seconds
    ticks,                \* clock advances made
    log                   \* per thread, the lines of its latest print

vars == <<environ, files, VERTEX_HEADERS, VERTEX_USER_PROJECT,
          VERTEX_REFRESH_THREAD_STARTED, main, loop, h, client, provider,
          now, ticks, log>>

-----------------------------------------------------------------------------
(* Bounds of the model *)

MaxTicks == 1
MaxLoopAttempts == 2
MaxRequests == 1
MaxStartCalls == 2

-----------------------------------------------------------------------------
(* Python values *)

NONE == "<None>"

Truthy(v) == v # NONE /\ v # ""

Or(a, b) == IF Truthy(a) THEN a ELSE b

DictGet(d, k) == IF k \in DOMAIN d THEN d[k] ELSE NONE

DictSet(d, k, v) == [x \in DOMAIN d \cup {k} |-> IF x = k THEN v ELSE d[x]]

EmptyDict == [x \in {} |-> NONE]

Min(a, b) == IF a <= b THEN a ELSE b

\* s[:n]
Prefix(s, n) == SubSeq(s, 1, Min(n, Len(s)))

\* t in s
Contains(s, t) ==
    \E i \in 1..(Len(s) - Len(t) + 1) : SubSeq(s, i, i + Len(t) - 1) = t

UpperChars == "ABCDEFGHIJKLMNOPQRSTUVWXYZ"
LowerChars == "abcdefghijklmnopqrstuvwxyz"

LowerChar(c) ==
    IF \E i \in 1..Len(UpperChars) : SubSeq(UpperChars, i, i) = c
    THEN LET i == CHOOSE j \in 1..Len(UpperChars) : SubSeq(UpperChars, j, j) = c
         IN SubSeq(LowerChars, i, i)
    ELSE c

RECURSIVE StrLower(_)
\* s.lower()
StrLower(s) ==
    IF Len(s) = 0 THEN ""
    ELSE LowerChar(SubSeq(s, 1, 1)) \o StrLower(SubSeq(s, 2, Len(s)))

-----------------------------------------------------------------------------
(* Configuration: environment variables and credential files *)

HDR_KEY == "X-Goog-Vertex-Api-Key"
HDR_PROJECT == "X-Goog-User-Project"
META_KEY == "x-goog-vertex-api-key"
META_PROJECT == "x-goog-user-project"

SA_PATH == "/secrets/sa.json"
SECRETS_PATH == "/etc/secrets/weaviate-sa.json"
ADC_TMP_PATH == "/app/gcp_credentials.json"

STATIC_KEY == "AIzaSy-static-vertex-apikey"
STATIC_BEARER == "ya29.static-bearer-token"

BLOB == "{\"project_id\": \"proj-json\"}"
BLOB_NO_PROJECT == "{\"type\": \"service_account\"}"

\* json.loads / json.load of the documents of the model
JsonLoads(text) ==
    IF text = BLOB THEN [k \in {"project_id"} |-> "proj-json"]
    ELSE IF text = BLOB_NO_PROJECT THEN [k \in {"type"} |-> "service_account"]
    ELSE EmptyDict

FileWithProject == [k \in {"project_id"} |-> "proj-file"]
FileWithQuotaOnly == [k \in {"quota_project_id"} |-> "proj-quota"]
FileNoProject == [k \in {"type"} |-> "service_account"]

Env(pairs) == [k \in {p[1] : p \in pairs} |-> (CHOOSE p \in pairs : p[1] = k)[2]]

\* The deployments the model is run under: environment, files, the project
\* google.auth.default() reports, and the lifetime the identity provider grants
\* its tokens (seconds; 0 when it reports no expiry).
Deployments ==
    { \* refresher enabled, key file named by GOOGLE_APPLICATION_CREDENTIALS
      [environ |-> Env({<<"VERTEX_USE_OAUTH", "True">>,
                        <<"GOOGLE_APPLICATION_CREDENTIALS", SA_PATH>>}),
       files |-> [p \in {SA_PATH} |-> FileWithProject],
       adc_project |-> NONE,
       lifetime |-> 7200],
      \* refresher not enabled: on-demand refresh only
      [environ |-> Env({<<"VERTEX_USE_OAUTH", "0">>,
                        <<"GOOGLE_APPLICATION_CREDENTIALS", SA_PATH>>,
                        <<"GOOGLE_APPLICATION_CREDENTIALS_JSON", BLOB>>}),
       files |-> [p \in {SA_PATH} |-> FileWithQuotaOnly],
       adc_project |-> NONE,
       lifetime |-> 400],
      \* static API key, refresher not enabled
      [environ |-> Env({<<"VERTEX_APIKEY", STATIC_KEY>>,
                        <<"GOOGLE_APPLICATION_CREDENTIALS", SA_PATH>>}),
       files |-> [p \in {SA_PATH} |-> FileWithProject],
       adc_project |-> NONE,
       lifetime |-> 3600],
      \* static bearer token, refresher enabled
      [environ |-> Env({<<"VERTEX_BEARER_TOKEN", STATIC_BEARER>>,
                        <<"VERTEX_USE_OAUTH", "1">>,
                        <<"GOOGLE_APPLICATION_CREDENTIALS", SA_PATH>>}),
       files |-> [p \in {SA_PATH} |-> FileNoProject],
       adc_project |-> "proj-adc",
       lifetime |-> 0],
      \* no key file anywhere
      [environ |-> Env({<<"VERTEX_USE_OAUTH", "yes">>}),
       files |-> EmptyDict,
       adc_project |-> NONE,
       lifetime |-> 3600],
      \* inline JSON credentials only: the starter writes them to a file
      [environ |-> Env({<<"VERTEX_USE_OAUTH", "true">>,
                        <<"GOOGLE_APPLICATION_CREDENTIALS_JSON", BLOB>>}),
       files |-> EmptyDict,
       adc_project |-> NONE,
       lifetime |-> 400],
      \* key file at the default secrets path
      [environ |-> Env({<<"VERTEX_USE_OAUTH", "YES">>,
                        <<"GOOGLE_APPLICATION_CREDENTIALS_JSON", BLOB_NO_PROJECT>>}),
       files |-> [p \in {SECRETS_PATH} |-> FileWithProject],
       adc_project |-> "proj-adc",
       lifetime |-> 7200] }

Exists(fs, path) == path \in DOMAIN fs

\* _load_vertex_user_project(path): the new value of _VERTEX_USER_PROJECT
LoadVertexUserProject(up, fs, path) ==
    IF Truthy(up) THEN up
    ELSE LET data == fs[path]
             pid == DictGet(data, "project_id")
         IN IF ~Truthy(pid) /\ Truthy(DictGet(data, "quota_project_id"))
            THEN data["quota_project_id"]
            ELSE pid

\* _resolve_service_account_path(): the path returned, and os.environ and
\* _VERTEX_USER_PROJECT after the call
ResolveServiceAccountPath(env, fs, up) ==
    LET gac_path == DictGet(env, "GOOGLE_APPLICATION_CREDENTIALS")
        sa_path == DictGet(env, "VERTEX_SA_PATH")
    IN IF Truthy(gac_path) /\ Exists(fs, gac_path)
       THEN [path |-> gac_path, environ |-> env,
             user_project |-> LoadVertexUserProject(up, fs, gac_path)]
       ELSE IF Truthy(sa_path) /\ Exists(fs, sa_path)
       THEN [path |-> sa_path,
             environ |-> DictSet(env, "GOOGLE_APPLICATION_CREDENTIALS", sa_path),
             user_project |-> LoadVertexUserProject(up, fs, sa_path)]
       ELSE IF Exists(fs, SECRETS_PATH)
       THEN [path |-> SECRETS_PATH,
             environ |-> DictSet(env, "GOOGLE_APPLICATION_CREDENTIALS", SECRETS_PATH),
             user_project |-> LoadVertexUserProject(up, fs, SECRETS_PATH)]
       ELSE [path |-> NONE, environ |-> env, user_project |-> up]

\* _discover_gcp_project()
DiscoverGcpProject(env, fs, adc_project) ==
    LET gac_json == DictGet(env, "GOOGLE_APPLICATION_CREDENTIALS_JSON")
        gac_path == DictGet(env, "GOOGLE_APPLICATION_CREDENTIALS")
    IN IF Truthy(gac_json) /\ Truthy(DictGet(JsonLoads(gac_json), "project_id"))
       THEN JsonLoads(gac_json)["project_id"]
       ELSE IF /\ Truthy(gac_path) /\ Exists(fs, gac_path)
               /\ Truthy(DictGet(fs[gac_path], "project_id"))
       THEN fs[gac_path]["project_id"]
       ELSE IF Truthy(adc_project) THEN adc_project
       ELSE NONE

\* _build_vertex_header_map(token)
BuildVertexHeaderMap(token, up, env, fs, adc_project) ==
    LET project_id == Or(up, DiscoverGcpProject(env, fs, adc_project))
        headers == [k \in {HDR_KEY} |-> token]
    IN IF Truthy(project_id) THEN DictSet(headers, HDR_PROJECT, project_id)
       ELSE headers

\* meta_list of _connect and of _update_client_grpc_metadata, as a dict
GrpcMetaList(token, up, env, fs, adc_project) ==
    LET project_id == Or(up, DiscoverGcpProject(env, fs, adc_project))
        meta == [k \in {META_KEY} |-> token]
    IN IF Truthy(project_id) THEN DictSet(meta, META_PROJECT, project_id)
       ELSE meta

\* the truth test both _connect and _update_client_grpc_metadata make of the cache
CacheHasToken(headers) ==
    /\ DOMAIN headers # {}
    /\ Truthy(DictGet(headers, HDR_KEY))

\* os.environ.get("VERTEX_APIKEY") or os.environ.get("VERTEX_BEARER_TOKEN")
StaticToken(env) ==
    Or(DictGet(env, "VERTEX_APIKEY"), DictGet(env, "VERTEX_BEARER_TOKEN"))

\* os.environ.get("VERTEX_USE_OAUTH", "").lower() in ("1", "true", "yes")
OauthEnabled(env) ==
    LET v == DictGet(env, "VERTEX_USE_OAUTH")
    IN StrLower(IF v = NONE THEN "" ELSE v) \in {"1", "true", "yes"}

-----------------------------------------------------------------------------
(* The identity provider and the clock *)

PREFIX_LEN == 10
REFRESH_MARGIN == 300
MIN_DELTA == 300
BACKOFF == 60
FALLBACK_SLEEP == 55 * 60

\* the n-th bearer token the provider issues
Token(n) == "ya29.a0Ab_" \o "secret" \o ToString(n)

\* clock advances, seconds
TickSteps == {3300}

NoExpiry == [known |-> FALSE, at |-> 0]
ExpiresAt(t) == [known |-> TRUE, at |-> t]

\* creds.expiry of a token issued at time t under the provider's lifetime
ExpiryOf(prov, t) ==
    IF prov.lifetime > 0 THEN ExpiresAt(t + prov.lifetime) ELSE NoExpiry

\* what creds.refresh(Request()) may leave in creds: it raises, or it returns
\* with creds.token and creds.expiry set
RefreshOutcomes(prov, t) ==
    {[raised |-> TRUE, token |-> NONE, expiry |-> NoExpiry]}
    \cup {[raised |-> FALSE, token |-> tok, expiry |-> NoExpiry] : tok \in {NONE, ""}}
    \cup {[raised |-> FALSE, token |-> Token(prov.serial + 1),
           expiry |-> ExpiryOf(prov, t)]}

EXC_REFRESH == "RefreshError: unable to acquire access token"
EXC_ENVIRON_NONE == "str expected, not NoneType"

\* the provider's state when `who` invokes creds.refresh
Invoke(prov, who) ==
    [prov EXCEPT !.inflight = @ \cup {who}]

\* the provider's state after the exchange of `who` ended with outcome o
Issue(prov, who, o) ==
    [prov EXCEPT
        !.inflight = @ \ {who},
        !.serial = IF ~o.raised /\ Truthy(o.token) THEN @ + 1 ELSE @,
        !.issued = IF ~o.raised /\ Truthy(o.token)
                   THEN [x \in DOMAIN @ \cup {o.token} |->
                            IF x = o.token THEN o.expiry ELSE @[x]]
                   ELSE @]

\* print(...) by thread `who`: log keeps, per thread, the lines of its latest print
Printed(who, lines) == [log EXCEPT ![who] = lines]

Tick(d) ==
    /\ ticks < MaxTicks
    /\ now' = now + d
    /\ ticks' = ticks + 1
    /\ UNCHANGED <<environ, files, VERTEX_HEADERS, VERTEX_USER_PROJECT,
                   VERTEX_REFRESH_THREAD_STARTED, main, loop, h, client,
                   provider, log>>

-----------------------------------------------------------------------------
(* _maybe_start_vertex_oauth_refresher and _write_adc_from_json_env *)

\* _write_adc_from_json_env(): os.environ, the files and _VERTEX_USER_PROJECT after it
WriteAdcFromJsonEnv(env, fs, up) ==
    LET gac_json == DictGet(env, "GOOGLE_APPLICATION_CREDENTIALS_JSON")
        gac_path == DictGet(env, "GOOGLE_APPLICATION_CREDENTIALS")
        written == Truthy(gac_json) /\ ~Truthy(gac_path)
        fs1 == IF written THEN DictSet(fs, ADC_TMP_PATH, JsonLoads(gac_json)) ELSE fs
        env1 == IF written
                THEN DictSet(env, "GOOGLE_APPLICATION_CREDENTIALS", ADC_TMP_PATH)
                ELSE env
        r == ResolveServiceAccountPath(env1, fs1, up)
    IN [environ |-> r.environ, files |-> fs1, user_project |-> r.user_project]

InitLoop ==
    [pc |-> "unstarted", token |-> NONE, expiry |-> NoExpiry, sleep_s |-> 0,
     wake_at |-> 0, attempts |-> 0, exc |-> NONE]

\* a starter that does not look at the started flag
AlreadyStarted_Ignored == FALSE

\* line 755: if _VERTEX_REFRESH_THREAD_STARTED: return
AlreadyStarted == VERTEX_REFRESH_THREAD_STARTED

\* one call of _maybe_start_vertex_oauth_refresher() by the main thread
MaybeStartVertexOauthRefresher ==
    /\ main.start_calls < MaxStartCalls
    /\ h.pc = "idle"
    /\ IF AlreadyStarted \/ ~OauthEnabled(environ)
       THEN /\ main' = [main EXCEPT !.start_calls = @ + 1]
            /\ UNCHANGED <<environ, files, VERTEX_USER_PROJECT,
                           VERTEX_REFRESH_THREAD_STARTED, loop, log>>
       ELSE LET w == WriteAdcFromJsonEnv(environ, files, VERTEX_USER_PROJECT)
                r == ResolveServiceAccountPath(w.environ, w.files, w.user_project)
            IN /\ environ' = r.environ
               /\ files' = w.files
               /\ VERTEX_USER_PROJECT' = r.user_project
               /\ IF ~Truthy(r.path)
                  THEN /\ log' = Printed("main",
                            {"[vertex-oauth] service account path not found; refresher not started"})
                       /\ main' = [main EXCEPT !.start_calls = @ + 1]
                       /\ UNCHANGED <<VERTEX_REFRESH_THREAD_STARTED, loop>>
                  ELSE /\ loop' = [InitLoop EXCEPT !.pc = "l_init"]
                       /\ main' = [main EXCEPT !.start_calls = @ + 1,
                                               !.threads = @ + 1]
                       /\ VERTEX_REFRESH_THREAD_STARTED' = TRUE
                       /\ UNCHANGED log
    /\ UNCHANGED <<VERTEX_HEADERS, h, client, provider, now, ticks>>

-----------------------------------------------------------------------------
(* _refresh_vertex_oauth_loop, the background thread *)

\* sleep_s of the loop after a successful refresh, read at time t
SleepSeconds(expiry, t) ==
    IF expiry.known /\ (expiry.at - t) - REFRESH_MARGIN > MIN_DELTA
    THEN (expiry.at - t) - REFRESH_MARGIN
    ELSE FALLBACK_SLEEP

\* lines 722-728: resolve the key file; without one the thread returns
LoopInit ==
    /\ loop.pc = "l_init"
    /\ LET r == ResolveServiceAccountPath(environ, files, VERTEX_USER_PROJECT)
       IN /\ environ' = r.environ
          /\ VERTEX_USER_PROJECT' = r.user_project
          /\ IF ~Truthy(r.path)
             THEN /\ loop' = [loop EXCEPT !.pc = "l_returned"]
                  /\ log' = Printed("loop",
                       {"[vertex-oauth] GOOGLE_APPLICATION_CREDENTIALS missing; token refresher disabled"})
             ELSE /\ loop' = [loop EXCEPT !.pc = "l_refresh"]
                  /\ UNCHANGED log
    /\ UNCHANGED <<files, VERTEX_HEADERS, VERTEX_REFRESH_THREAD_STARTED, main, h,
                   client, provider, now, ticks>>

\* line 732: creds.refresh(Request()) is invoked
LoopRefreshStart ==
    /\ loop.pc = "l_refresh"
    /\ loop.attempts < MaxLoopAttempts
    /\ loop' = [loop EXCEPT !.pc = "l_inflight", !.attempts = @ + 1]
    /\ provider' = Invoke(provider, "loop")
    /\ UNCHANGED <<environ, files, VERTEX_HEADERS, VERTEX_USER_PROJECT,
                   VERTEX_REFRESH_THREAD_STARTED, main, h, client, now, ticks, log>>

\* lines 732-733: the exchange ends; token = creds.token
LoopRefreshEnd ==
    /\ loop.pc = "l_inflight"
    /\ \E o \in RefreshOutcomes(provider, now) :
         /\ provider' = Issue(provider, "loop", o)
         /\ loop' = IF o.raised
                    THEN [loop EXCEPT !.pc = "l_except", !.exc = EXC_REFRESH]
                    ELSE [loop EXCEPT !.pc = "l_commit", !.token = o.token,
                                      !.expiry = o.expiry]
    /\ UNCHANGED <<environ, files, VERTEX_HEADERS, VERTEX_USER_PROJECT,
                   VERTEX_REFRESH_THREAD_STARTED, main, h, client, now, ticks, log>>

\* a commit that updates the cached dict in place, the token entry first
LoopCommit_InPlace ==
    /\ loop.pc = "l_commit"
    /\ VERTEX_HEADERS' = DictSet(VERTEX_HEADERS, HDR_KEY, loop.token)
    /\ loop' = [loop EXCEPT !.pc = "l_env1"]
    /\ UNCHANGED <<environ, files, VERTEX_USER_PROJECT,
                   VERTEX_REFRESH_THREAD_STARTED, main, h, client, provider,
                   now, ticks, log>>

\* line 734: _VERTEX_HEADERS = _build_vertex_header_map(token)
LoopCommit ==
    /\ loop.pc = "l_commit"
    /\ VERTEX_HEADERS' = BuildVertexHeaderMap(loop.token, VERTEX_USER_PROJECT,
                                              environ, files, provider.adc_project)
    /\ loop' = [loop EXCEPT !.pc = "l_env1"]
    /\ UNCHANGED <<environ, files, VERTEX_USER_PROJECT,
                   VERTEX_REFRESH_THREAD_STARTED, main, h, client, provider,
                   now, ticks, log>>

\* line 736: os.environ["GOOGLE_APIKEY"] = token; a token of None is a TypeError
LoopEnvGoogle ==
    /\ loop.pc = "l_env1"
    /\ IF loop.token = NONE
       THEN /\ loop' = [loop EXCEPT !.pc = "l_except", !.exc = EXC_ENVIRON_NONE]
            /\ UNCHANGED environ
       ELSE /\ environ' = DictSet(environ, "GOOGLE_APIKEY", loop.token)
            /\ loop' = [loop EXCEPT !.pc = "l_env2"]
    /\ UNCHANGED <<files, VERTEX_HEADERS, VERTEX_USER_PROJECT,
                   VERTEX_REFRESH_THREAD_STARTED, main, h, client, provider,
                   now, ticks, log>>

\* lines 737-747: os.environ["PALM_APIKEY"] = token, the prefix is printed,
\* sleep_s is computed from creds.expiry and the clock, and the thread sleeps
LoopEnvPalmAndSleep ==
    /\ loop.pc = "l_env2"
    /\ environ' = DictSet(environ, "PALM_APIKEY", loop.token)
    /\ log' = Printed("loop",
         {"[vertex-oauth] Vertex token refreshed (prefix: "
            \o (IF Truthy(loop.token) THEN Prefix(loop.token, PREFIX_LEN) ELSE "None")
            \o "...)"})
    /\ LET s == SleepSeconds(loop.expiry, now)
       IN loop' = [loop EXCEPT !.pc = "l_sleep", !.sleep_s = s, !.wake_at = now + s,
                               !.token = NONE, !.expiry = NoExpiry]
    /\ UNCHANGED <<files, VERTEX_HEADERS, VERTEX_USER_PROJECT,
                   VERTEX_REFRESH_THREAD_STARTED, main, h, client, provider,
                   now, ticks>>

\* an except clause that prints the failure and leaves the loop
LoopExcept_Leaves ==
    /\ loop.pc = "l_except"
    /\ log' = Printed("loop", {"[vertex-oauth] refresh error: " \o loop.exc})
    /\ loop' = [loop EXCEPT !.pc = "l_returned", !.exc = NONE,
                            !.token = NONE, !.expiry = NoExpiry]
    /\ UNCHANGED <<environ, files, VERTEX_HEADERS, VERTEX_USER_PROJECT,
                   VERTEX_REFRESH_THREAD_STARTED, main, h, client, provider,
                   now, ticks>>

\* lines 748-750: the failure is printed and the thread sleeps 60 s
LoopExcept ==
    /\ loop.pc = "l_except"
    /\ log' = Printed("loop", {"[vertex-oauth] refresh error: " \o loop.exc})
    /\ loop' = [loop EXCEPT !.pc = "l_backoff", !.sleep_s = BACKOFF,
                            !.wake_at = now + BACKOFF, !.exc = NONE,
                            !.token = NONE, !.expiry = NoExpiry]
    /\ UNCHANGED <<environ, files, VERTEX_HEADERS, VERTEX_USER_PROJECT,
                   VERTEX_REFRESH_THREAD_STARTED, main, h, client, provider,
                   now, ticks>>

\* time.sleep returns (line 747 or line 750): the next iteration of while True
LoopWake ==
    /\ loop.pc \in {"l_sleep", "l_backoff"}
    /\ now >= loop.wake_at
    /\ loop' = [loop EXCEPT !.pc = "l_refresh", !.sleep_s = 0, !.wake_at = 0]
    /\ UNCHANGED <<environ, files, VERTEX_HEADERS, VERTEX_USER_PROJECT,
                   VERTEX_REFRESH_THREAD_STARTED, main, h, client, provider,
                   now, ticks, log>>

-----------------------------------------------------------------------------
(* A tool call on the event loop: _connect, _sync_refresh_vertex_token,    *)
(* _update_client_grpc_metadata and the tool bodies                        *)

Tools == {"check_connection", "hybrid_search"}

\* TOOL_REGISTRY, lines 682-693: the registered tools of the model
TOOL_REGISTRY == {"check_connection", "list_collections", "hybrid_search"}

\* the parameters of each tool's signature, and those without a default
Parameters(name) ==
    IF name = "hybrid_search"
    THEN {"collection", "query", "limit", "alpha", "query_properties"}
    ELSE {}

Required(name) ==
    IF name = "hybrid_search" THEN {"collection", "query"} ELSE {}

\* fn(**kwargs) binds: no unexpected keyword, no required parameter missing
Binds(name, kwargs) ==
    /\ DOMAIN kwargs \subseteq Parameters(name)
    /\ Required(name) \subseteq DOMAIN kwargs

\* Python values a tool returns: their type and their repr
DictValue(repr) == [type |-> "dict", repr |-> repr]
ListValue(repr) == [type |-> "list", repr |-> repr]
NoValue == [type |-> "NoneType", repr |-> "None"]

\* exceptions: their class and str(e)
NoException == [type |-> "", msg |-> ""]
SignatureError(name, kwargs) ==
    [type |-> "TypeError",
     msg |-> IF DOMAIN kwargs \subseteq Parameters(name)
             THEN name \o "() missing required positional arguments"
             ELSE name \o "() got an unexpected keyword argument"]

\* what a call into the Weaviate client library may raise
LibraryExceptions ==
    {[type |-> "TypeError", msg |-> "unsupported operand type(s)"],
     [type |-> "WeaviateBaseError", msg |-> "connection to Weaviate failed"]}

\* types.CallToolResult: isError, the text content, structuredContent
NoResult == [isError |-> FALSE, text |-> "", structuredContent |-> NoValue]
ErrorResult(text) == [isError |-> TRUE, text |-> text, structuredContent |-> NoValue]

\* line 1000: result if isinstance(result, dict) else {"result": result}
StructuredContent(value) ==
    IF value.type = "dict" THEN value
    ELSE DictValue("{'result': " \o value.repr \o "}")

\* lines 989-1003
ToolResult(name, value) ==
    [isError |-> FALSE,
     text |-> "Risultato del tool " \o name \o " disponibile in structuredContent.",
     structuredContent |-> StructuredContent(value)]

NoClient == [state |-> "none", headers |-> EmptyDict, meta |-> EmptyDict]

InitHandler ==
    [pc |-> "idle", tool |-> NONE, vertex_token |-> NONE, headers |-> EmptyDict,
     ret |-> NONE, token |-> NONE, requests |-> 0, result |-> NoResult,
     name |-> NONE, args |-> EmptyDict, kwargs |-> EmptyDict, runs |-> 0,
     retried |-> FALSE, value |-> NoValue, exc |-> NoException,
     info |-> EmptyDict]

\* _call_tool_request returns res: its frame is gone
Returned(res) == [InitHandler EXCEPT !.requests = h.requests, !.result = res]

\* the tool body returned value or raised exc: its frame is gone
ToolDone(value, exc) ==
    [h EXCEPT !.pc = "tool_done", !.tool = NONE, !.vertex_token = NONE,
              !.headers = EmptyDict, !.ret = NONE, !.token = NONE,
              !.value = value, !.exc = exc]

\* the first statement of the tool body after client = _connect()
BodyPc(tool) ==
    IF tool = "hybrid_search" THEN "hs_get"
    ELSE IF tool = "list_collections" THEN "lc_ready"
    ELSE "cc_ready"

\* where _sync_refresh_vertex_token returns to: _connect line 225-228, or
\* _update_client_grpc_metadata line 291-295 (which returns on False)
SyncReturnPc(ret, ok) ==
    IF ret = "connect" THEN "connect_read"
    ELSE IF ok THEN "update_read" ELSE "hs_query"

\* what the caller prints when _sync_refresh_vertex_token returned `ok`
SyncReturnLog(ret, ok) ==
    IF ret = "connect" /\ ~ok
    THEN {"[vertex-oauth] WARNING: failed to refresh Vertex token"}
    ELSE {}

\* repr of meta_list, as printed by _connect line 275
ReprMeta(meta) ==
    "[('" \o META_KEY \o "', '" \o meta[META_KEY] \o "')"
    \o (IF META_PROJECT \in DOMAIN meta
        THEN ", ('" \o META_PROJECT \o "', '" \o meta[META_PROJECT] \o "')"
        ELSE "")
    \o "]"

\* Request arguments: a dict from argument name to the repr of its value
ArgOrder == <<"collection", "query", "limit", "alpha", "query_properties",
              "return_properties">>

\* not v, for the values of the model
Falsy(v) == v \in {"None", "''", "0", "False", "[]", "{}"}

\* args.get(k)
ArgGet(args, k) == IF k \in DOMAIN args THEN args[k] ELSE "None"

\* json.dumps of one value, from its repr
JsonValue(v) ==
    IF v = "None" THEN "null"
    ELSE IF SubSeq(v, 1, 1) = "'" THEN "\"" \o SubSeq(v, 2, Len(v) - 1) \o "\""
    ELSE v

RECURSIVE Items(_, _, _, _)
\* the items of args from the i-th key on, as repr (json = FALSE) or JSON
Items(args, i, json, first) ==
    IF i > Len(ArgOrder) THEN ""
    ELSE IF ArgOrder[i] \notin DOMAIN args THEN Items(args, i + 1, json, first)
    ELSE (IF first THEN "" ELSE ", ")
         \o (IF json THEN "\"" \o ArgOrder[i] \o "\": " \o JsonValue(args[ArgOrder[i]])
             ELSE "'" \o ArgOrder[i] \o "': " \o args[ArgOrder[i]])
         \o Items(args, i + 1, json, FALSE)

\* json.dumps(args, ensure_ascii=False), line 907
JsonDumps(args) == "{" \o Items(args, 1, TRUE, TRUE) \o "}"

\* repr(args), as print shows it at line 915
PyRepr(args) == "{" \o Items(args, 1, FALSE, TRUE) \o "}"

DEFAULT_COLLECTION == "'WindBilance'"

\* a dispatcher that passes the request's arguments on as they came
CleanArgs_AsSent(args) == args

\* lines 917-949: clean_args of a hybrid_search request that has a query
CleanArgs(args) ==
    LET optional == {"limit", "alpha", "query_properties"} \cap DOMAIN args
    IN [k \in {"collection", "query"} \cup optional |->
          IF k = "collection"
          THEN (IF Falsy(ArgGet(args, "collection")) THEN DEFAULT_COLLECTION
                ELSE args["collection"])
          ELSE args[k]]

\* print by the handler, when the step prints at all
Logged(lines) == IF lines = {} THEN log ELSE Printed("handler", lines)

\* hybrid_search lines 575-579: the warning about a collection other than WindBilance
BodyEntryLog(name, kwargs) ==
    IF /\ name = "hybrid_search"
       /\ ~Falsy(ArgGet(kwargs, "collection"))
       /\ kwargs["collection"] # DEFAULT_COLLECTION
    THEN {"[hybrid_search] warning: collection " \o kwargs["collection"]
            \o " requested, but using 'WindBilance' as per instructions"}
    ELSE {}

\* fn(**kwargs) or fn() enters the tool's body, which begins with
\* client = _connect(): _connect lines 203-205
EnterBody(hh, kwargs, lines) ==
    /\ h' = [hh EXCEPT !.pc = "connect_check", !.tool = hh.name,
                       !.kwargs = kwargs, !.runs = @ + 1]
    /\ client' = NoClient
    /\ LET r == ResolveServiceAccountPath(environ, files, VERTEX_USER_PROJECT)
       IN /\ environ' = r.environ
          /\ VERTEX_USER_PROJECT' = r.user_project
    /\ log' = Logged(lines \cup BodyEntryLog(hh.name, kwargs))

\* _call_tool_request lines 903-907: a request arrives
CallToolRequest(name, args) ==
    /\ h.pc = "idle"
    /\ main.start_calls >= 1
    /\ h.requests < MaxRequests
    /\ h' = [InitHandler EXCEPT !.pc = "call_tool", !.name = name, !.args = args,
                                !.requests = h.requests + 1]
    /\ log' = Printed("handler",
         {"[call_tool] name=" \o name \o ", args=" \o JsonDumps(args)})
    /\ UNCHANGED <<environ, files, VERTEX_HEADERS, VERTEX_USER_PROJECT,
                   VERTEX_REFRESH_THREAD_STARTED, main, loop, client, provider,
                   now, ticks>>

\* _call_tool_request lines 910-954: an unknown name and a hybrid_search without
\* query are answered at once; otherwise fn(**args) is called, which raises
\* TypeError when the arguments do not fit the signature
Dispatch ==
    /\ h.pc = "call_tool"
    /\ IF h.name \notin TOOL_REGISTRY
       THEN /\ h' = Returned(ErrorResult("Unknown tool: " \o h.name))
            /\ UNCHANGED <<environ, VERTEX_USER_PROJECT, client, log>>
       ELSE IF h.name = "hybrid_search" /\ Falsy(ArgGet(h.args, "query"))
       THEN /\ h' = Returned(ErrorResult(
                      "Errore: parametro obbligatorio 'query' mancante per hybrid_search."))
            /\ log' = Printed("handler",
                        {"[call_tool] hybrid_search called with: " \o PyRepr(h.args)})
            /\ UNCHANGED <<environ, VERTEX_USER_PROJECT, client>>
       ELSE LET args == IF h.name = "hybrid_search" THEN CleanArgs(h.args) ELSE h.args
                lines == IF h.name = "hybrid_search"
                         THEN {"[call_tool] hybrid_search called with: " \o PyRepr(h.args)}
                         ELSE {}
            IN IF Binds(h.name, args)
               THEN EnterBody([h EXCEPT !.args = args], args, lines)
               ELSE /\ h' = [h EXCEPT !.pc = "tool_done", !.args = args,
                                      !.exc = SignatureError(h.name, args)]
                    /\ log' = Logged(lines)
                    /\ UNCHANGED <<environ, VERTEX_USER_PROJECT, client>>
    /\ UNCHANGED <<files, VERTEX_HEADERS, VERTEX_REFRESH_THREAD_STARTED, main,
                   loop, provider, now, ticks>>

\* line 958: except TypeError, around fn(**args)
RetryOnTypeError == h.exc.type = "TypeError" /\ ~h.retried

\* _call_tool_request lines 956-1003: the tool returned or raised; a TypeError
\* is answered by calling fn() without arguments
DispatchResult ==
    /\ h.pc = "tool_done"
    /\ IF h.exc = NoException
       THEN /\ h' = Returned(ToolResult(h.name, h.value))
            /\ UNCHANGED <<environ, VERTEX_USER_PROJECT, client, log>>
       ELSE IF RetryOnTypeError
       THEN IF Binds(h.name, EmptyDict)
            THEN EnterBody([h EXCEPT !.retried = TRUE, !.exc = NoException],
                           EmptyDict, {})
            ELSE /\ h' = Returned(ErrorResult("Errore chiamando tool " \o h.name
                             \o ": " \o SignatureError(h.name, EmptyDict).msg))
                 /\ UNCHANGED <<environ, VERTEX_USER_PROJECT, client, log>>
       ELSE /\ h' = Returned(ErrorResult("Errore chiamando tool " \o h.name
                        \o ": " \o h.exc.msg))
            /\ UNCHANGED <<environ, VERTEX_USER_PROJECT, client, log>>
    /\ UNCHANGED <<files, VERTEX_HEADERS, VERTEX_REFRESH_THREAD_STARTED, main,
                   loop, provider, now, ticks>>

\* _connect lines 215-225: static token, else the cache, else a refresh
ConnectCheck ==
    /\ h.pc = "connect_check"
    /\ LET vertex_token == StaticToken(environ)
       IN h' = IF Truthy(vertex_token)
               THEN [h EXCEPT !.pc = "connect_headers", !.vertex_token = vertex_token]
               ELSE IF ~CacheHasToken(VERTEX_HEADERS)
               THEN [h EXCEPT !.pc = "sync_resolve", !.ret = "connect"]
               ELSE [h EXCEPT !.pc = "connect_read"]
    /\ UNCHANGED <<environ, files, VERTEX_HEADERS, VERTEX_USER_PROJECT,
                   VERTEX_REFRESH_THREAD_STARTED, main, loop, client, provider,
                   now, ticks, log>>

\* _sync_refresh_vertex_token lines 157-167
SyncResolve ==
    /\ h.pc = "sync_resolve"
    /\ LET r == ResolveServiceAccountPath(environ, files, VERTEX_USER_PROJECT)
       IN /\ environ' = r.environ
          /\ VERTEX_USER_PROJECT' = r.user_project
          /\ IF ~Truthy(r.path)
             THEN /\ h' = [h EXCEPT !.pc = SyncReturnPc(h.ret, FALSE), !.ret = NONE]
                  /\ log' = Printed("handler",
                       {"[vertex-oauth] service account path not found: None"}
                       \cup SyncReturnLog(h.ret, FALSE))
             ELSE /\ h' = [h EXCEPT !.pc = "sync_refresh"]
                  /\ UNCHANGED log
    /\ UNCHANGED <<files, VERTEX_HEADERS, VERTEX_REFRESH_THREAD_STARTED, main,
                   loop, client, provider, now, ticks>>

\* _sync_refresh_vertex_token line 174: creds.refresh(Request()) is invoked
SyncRefreshStart ==
    /\ h.pc = "sync_refresh"
    /\ h' = [h EXCEPT !.pc = "sync_inflight"]
    /\ provider' = Invoke(provider, "handler")
    /\ UNCHANGED <<environ, files, VERTEX_HEADERS, VERTEX_USER_PROJECT,
                   VERTEX_REFRESH_THREAD_STARTED, main, loop, client, now,
                   ticks, log>>

\* an on-demand refresh that does not test the token before it commits
SyncRefreshEnd_NoTokenTest ==
    /\ h.pc = "sync_inflight"
    /\ \E o \in RefreshOutcomes(provider, now) :
         /\ provider' = Issue(provider, "handler", o)
         /\ IF o.raised
            THEN /\ h' = [h EXCEPT !.pc = SyncReturnPc(h.ret, FALSE), !.ret = NONE]
                 /\ log' = Printed("handler",
                      {"[vertex-oauth] sync refresh error: " \o EXC_REFRESH}
                      \cup SyncReturnLog(h.ret, FALSE))
            ELSE /\ h' = [h EXCEPT !.pc = "sync_commit", !.token = o.token]
                 /\ UNCHANGED log
    /\ UNCHANGED <<environ, files, VERTEX_HEADERS, VERTEX_USER_PROJECT,
                   VERTEX_REFRESH_THREAD_STARTED, main, loop, client, now, ticks>>

\* _sync_refresh_vertex_token lines 174-182: the exchange ends
SyncRefreshEnd ==
    /\ h.pc = "sync_inflight"
    /\ \E o \in RefreshOutcomes(provider, now) :
         /\ provider' = Issue(provider, "handler", o)
         /\ IF o.raised
            THEN /\ h' = [h EXCEPT !.pc = SyncReturnPc(h.ret, FALSE), !.ret = NONE]
                 /\ log' = Printed("handler",
                      {"[vertex-oauth] sync refresh error: " \o EXC_REFRESH}
                      \cup SyncReturnLog(h.ret, FALSE))
            ELSE IF ~Truthy(o.token)
            THEN /\ h' = [h EXCEPT !.pc = SyncReturnPc(h.ret, FALSE), !.ret = NONE]
                 /\ log' = Printed("handler",
                      {"[vertex-oauth] token is None after refresh"}
                      \cup SyncReturnLog(h.ret, FALSE))
            ELSE /\ h' = [h EXCEPT !.pc = "sync_commit", !.token = o.token]
                 /\ UNCHANGED log
    /\ UNCHANGED <<environ, files, VERTEX_HEADERS, VERTEX_USER_PROJECT,
                   VERTEX_REFRESH_THREAD_STARTED, main, loop, client, now, ticks>>

\* _sync_refresh_vertex_token lines 184-186
SyncCommit ==
    /\ h.pc = "sync_commit"
    /\ VERTEX_HEADERS' = BuildVertexHeaderMap(h.token, VERTEX_USER_PROJECT,
                                              environ, files, provider.adc_project)
    /\ log' = Printed("handler",
         {"[vertex-oauth] sync token refresh for text2vec-google (prefix: "
            \o Prefix(h.token, PREFIX_LEN) \o "...)"})
    /\ h' = [h EXCEPT !.pc = "sync_env1"]
    /\ UNCHANGED <<environ, files, VERTEX_USER_PROJECT,
                   VERTEX_REFRESH_THREAD_STARTED, main, loop, client, provider,
                   now, ticks>>

\* _sync_refresh_vertex_token line 188
SyncEnvGoogle ==
    /\ h.pc = "sync_env1"
    /\ environ' = DictSet(environ, "GOOGLE_APIKEY", h.token)
    /\ h' = [h EXCEPT !.pc = "sync_env2"]
    /\ UNCHANGED <<files, VERTEX_HEADERS, VERTEX_USER_PROJECT,
                   VERTEX_REFRESH_THREAD_STARTED, main, loop, client, provider,
                   now, ticks, log>>

\* _sync_refresh_vertex_token lines 189-190: return True
SyncEnvPalm ==
    /\ h.pc = "sync_env2"
    /\ environ' = DictSet(environ, "PALM_APIKEY", h.token)
    /\ h' = [h EXCEPT !.pc = SyncReturnPc(h.ret, TRUE), !.ret = NONE, !.token = NONE]
    /\ UNCHANGED <<files, VERTEX_HEADERS, VERTEX_USER_PROJECT,
                   VERTEX_REFRESH_THREAD_STARTED, main, loop, client, provider,
                   now, ticks, log>>

\* _connect lines 228-229
ConnectRead ==
    /\ h.pc = "connect_read"
    /\ h' = [h EXCEPT !.pc = "connect_headers",
                      !.vertex_token = IF DOMAIN VERTEX_HEADERS # {}
                                       THEN DictGet(VERTEX_HEADERS, HDR_KEY)
                                       ELSE @]
    /\ UNCHANGED <<environ, files, VERTEX_HEADERS, VERTEX_USER_PROJECT,
                   VERTEX_REFRESH_THREAD_STARTED, main, loop, client, provider,
                   now, ticks, log>>

\* _connect lines 232-235 and 238-239
ConnectHeaders ==
    /\ h.pc = "connect_headers"
    /\ IF Truthy(h.vertex_token)
       THEN /\ h' = [h EXCEPT !.pc = "connect_env2",
                       !.headers = BuildVertexHeaderMap(h.vertex_token,
                                       VERTEX_USER_PROJECT, environ, files,
                                       provider.adc_project)]
            /\ environ' = DictSet(environ, "GOOGLE_APIKEY", h.vertex_token)
            /\ UNCHANGED log
       ELSE /\ h' = [h EXCEPT !.pc = "connect_client"]
            /\ log' = Printed("handler",
                 {"[vertex-oauth] WARNING: no Vertex token available for connection"})
            /\ UNCHANGED environ
    /\ UNCHANGED <<files, VERTEX_HEADERS, VERTEX_USER_PROJECT,
                   VERTEX_REFRESH_THREAD_STARTED, main, loop, client, provider,
                   now, ticks>>

\* _connect lines 236-237
ConnectEnvPalm ==
    /\ h.pc = "connect_env2"
    /\ environ' = DictSet(environ, "PALM_APIKEY", h.vertex_token)
    /\ log' = Printed("handler",
         {"[vertex-oauth] using Vertex token for text2vec-google (prefix: "
            \o Prefix(h.vertex_token, PREFIX_LEN) \o "...)"})
    /\ h' = [h EXCEPT !.pc = "connect_client"]
    /\ UNCHANGED <<files, VERTEX_HEADERS, VERTEX_USER_PROJECT,
                   VERTEX_REFRESH_THREAD_STARTED, main, loop, client, provider,
                   now, ticks>>

\* _connect lines 242-279: the client is created with the headers and, with a
\* token, its gRPC metadata is set and printed; or connect_to_weaviate_cloud
\* raises and the tool call ends in an error
ConnectClient ==
    /\ h.pc = "connect_client"
    /\ \/ /\ h' = [h EXCEPT !.pc = BodyPc(h.tool), !.vertex_token = NONE,
                            !.headers = EmptyDict]
          /\ IF Truthy(h.vertex_token)
             THEN LET meta_list == GrpcMetaList(h.vertex_token, VERTEX_USER_PROJECT,
                                       environ, files, provider.adc_project)
                  IN /\ client' = [state |-> "open", headers |-> h.headers,
                                   meta |-> meta_list]
                     /\ log' = Printed("handler",
                          {"[vertex-oauth] gRPC metadata set for text2vec-google: "
                             \o ReprMeta(meta_list)})
             ELSE /\ client' = [state |-> "open", headers |-> h.headers,
                                meta |-> EmptyDict]
                  /\ UNCHANGED log
       \/ /\ \E e \in LibraryExceptions : h' = ToolDone(NoValue, e)
          /\ UNCHANGED <<client, log>>
    /\ UNCHANGED <<environ, files, VERTEX_HEADERS, VERTEX_USER_PROJECT,
                   VERTEX_REFRESH_THREAD_STARTED, main, loop, provider, now, ticks>>

\* a check_connection whose client.close() is not in a finally clause
CheckConnectionBody_NoFinally ==
    /\ h.pc = "cc_ready"
    /\ \/ /\ h' = ToolDone(DictValue("{'ready': True}"), NoException)
          /\ client' = [NoClient EXCEPT !.state = "closed"]
       \/ /\ \E e \in LibraryExceptions : h' = ToolDone(NoValue, e)
          /\ UNCHANGED client
    /\ UNCHANGED <<environ, files, VERTEX_HEADERS, VERTEX_USER_PROJECT,
                   VERTEX_REFRESH_THREAD_STARTED, main, loop, provider, now,
                   ticks, log>>

\* check_connection lines 472-476: client.is_ready() returns or raises; finally
\* the client is closed
CheckConnectionBody ==
    /\ h.pc = "cc_ready"
    /\ \/ h' = ToolDone(DictValue("{'ready': True}"), NoException)
       \/ \E e \in LibraryExceptions : h' = ToolDone(NoValue, e)
    /\ client' = [NoClient EXCEPT !.state = "closed"]
    /\ UNCHANGED <<environ, files, VERTEX_HEADERS, VERTEX_USER_PROJECT,
                   VERTEX_REFRESH_THREAD_STARTED, main, loop, provider, now,
                   ticks, log>>

\* list_collections lines 482-493: the names are listed, or list_all raises;
\* finally the client is closed
ListCollectionsBody ==
    /\ h.pc = "lc_ready"
    /\ \/ h' = ToolDone(ListValue("['WindBilance']"), NoException)
       \/ \E e \in LibraryExceptions : h' = ToolDone(NoValue, e)
    /\ client' = [NoClient EXCEPT !.state = "closed"]
    /\ UNCHANGED <<environ, files, VERTEX_HEADERS, VERTEX_USER_PROJECT,
                   VERTEX_REFRESH_THREAD_STARTED, main, loop, provider, now,
                   ticks, log>>

\* hybrid_search lines 589-591: the collection is looked up; when there is none
\* an error dict is returned, and finally the client is closed
HybridSearchGet ==
    /\ h.pc = "hs_get"
    /\ \/ /\ h' = [h EXCEPT !.pc = "update_check"]
          /\ UNCHANGED client
       \/ /\ h' = ToolDone(DictValue("{'error': 'Collection not found'}"), NoException)
          /\ client' = [NoClient EXCEPT !.state = "closed"]
    /\ UNCHANGED <<environ, files, VERTEX_HEADERS, VERTEX_USER_PROJECT,
                   VERTEX_REFRESH_THREAD_STARTED, main, loop, provider, now,
                   ticks, log>>

\* _update_client_grpc_metadata lines 289-292
UpdateCheck ==
    /\ h.pc = "update_check"
    /\ h' = IF ~CacheHasToken(VERTEX_HEADERS)
            THEN [h EXCEPT !.pc = "sync_resolve", !.ret = "update"]
            ELSE [h EXCEPT !.pc = "update_read"]
    /\ UNCHANGED <<environ, files, VERTEX_HEADERS, VERTEX_USER_PROJECT,
                   VERTEX_REFRESH_THREAD_STARTED, main, loop, client, provider,
                   now, ticks, log>>

\* _update_client_grpc_metadata lines 295-325: the token is read from the cache
\* and, if there is one, set as the client's gRPC metadata
UpdateRead ==
    /\ h.pc = "update_read"
    /\ LET vertex_token == IF DOMAIN VERTEX_HEADERS # {}
                           THEN DictGet(VERTEX_HEADERS, HDR_KEY)
                           ELSE NONE
       IN IF Truthy(vertex_token)
          THEN /\ h' = [h EXCEPT !.pc = "update_env1", !.vertex_token = vertex_token]
               /\ client' = [client EXCEPT !.meta =
                               GrpcMetaList(vertex_token, VERTEX_USER_PROJECT,
                                            environ, files, provider.adc_project)]
          ELSE /\ h' = [h EXCEPT !.pc = "hs_query"]
               /\ UNCHANGED client
    /\ UNCHANGED <<environ, files, VERTEX_HEADERS, VERTEX_USER_PROJECT,
                   VERTEX_REFRESH_THREAD_STARTED, main, loop, provider, now,
                   ticks, log>>

\* _update_client_grpc_metadata line 328
UpdateEnvGoogle ==
    /\ h.pc = "update_env1"
    /\ environ' = DictSet(environ, "GOOGLE_APIKEY", h.vertex_token)
    /\ h' = [h EXCEPT !.pc = "update_env2"]
    /\ UNCHANGED <<files, VERTEX_HEADERS, VERTEX_USER_PROJECT,
                   VERTEX_REFRESH_THREAD_STARTED, main, loop, client, provider,
                   now, ticks, log>>

\* _update_client_grpc_metadata line 329
UpdateEnvPalm ==
    /\ h.pc = "update_env2"
    /\ environ' = DictSet(environ, "PALM_APIKEY", h.vertex_token)
    /\ h' = [h EXCEPT !.pc = "hs_query", !.vertex_token = NONE]
    /\ UNCHANGED <<files, VERTEX_HEADERS, VERTEX_USER_PROJECT,
                   VERTEX_REFRESH_THREAD_STARTED, main, loop, client, provider,
                   now, ticks, log>>

\* hybrid_search lines 596-633: the query returns or raises; finally the client
\* is closed
HybridSearchQuery ==
    /\ h.pc = "hs_query"
    /\ \/ h' = ToolDone(DictValue("{'count': 0, 'results': []}"), NoException)
       \/ \E e \in LibraryExceptions : h' = ToolDone(NoValue, e)
    /\ client' = [NoClient EXCEPT !.state = "closed"]
    /\ UNCHANGED <<environ, files, VERTEX_HEADERS, VERTEX_USER_PROJECT,
                   VERTEX_REFRESH_THREAD_STARTED, main, loop, provider, now,
                   ticks, log>>

-----------------------------------------------------------------------------
(* The system *)

Threads == {"main", "loop", "handler"}

\* the requests made while the background thread runs: one of each kind of tool
Requests ==
    {[name |-> "check_connection", args |-> EmptyDict],
     [name |-> "hybrid_search", args |-> [k \in {"query"} |-> "'wind'"]]}

Init ==
    /\ \E d \in Deployments :
         /\ environ = d.environ
         /\ files = d.files
         /\ provider = [adc_project |-> d.adc_project, lifetime |-> d.lifetime,
                        serial |-> 0, inflight |-> {}, issued |-> EmptyDict]
    /\ VERTEX_HEADERS = EmptyDict
    /\ VERTEX_USER_PROJECT = NONE
    /\ VERTEX_REFRESH_THREAD_STARTED = FALSE
    /\ main = [start_calls |-> 0, threads |-> 0]
    /\ loop = InitLoop
    /\ h = InitHandler
    /\ client = NoClient
    /\ now = 0
    /\ ticks = 0
    /\ log = [t \in Threads |-> {}]

Next ==
    \/ \E d \in TickSteps : Tick(d)
    \/ MaybeStartVertexOauthRefresher
    \/ LoopInit
    \/ LoopRefreshStart
    \/ LoopRefreshEnd
    \/ LoopCommit
    \/ LoopEnvGoogle
    \/ LoopEnvPalmAndSleep
    \/ LoopExcept
    \/ LoopWake
    \/ \E r \in Requests : CallToolRequest(r.name, r.args)
    \/ Dispatch
    \/ DispatchResult
    \/ ConnectCheck
    \/ SyncResolve
    \/ SyncRefreshStart
    \/ SyncRefreshEnd
    \/ SyncCommit
    \/ SyncEnvGoogle
    \/ SyncEnvPalm
    \/ ConnectRead
    \/ ConnectHeaders
    \/ ConnectEnvPalm
    \/ ConnectClient
    \/ CheckConnectionBody
    \/ HybridSearchGet
    \/ UpdateCheck
    \/ UpdateRead
    \/ UpdateEnvGoogle
    \/ UpdateEnvPalm
    \/ HybridSearchQuery

Spec == Init /\ [][Next]_vars

\* the steps of the background thread
LoopStep ==
    \/ LoopInit
    \/ LoopRefreshStart
    \/ LoopRefreshEnd
    \/ LoopCommit
    \/ LoopEnvGoogle
    \/ LoopEnvPalmAndSleep
    \/ LoopExcept
    \/ LoopWake

\* The threads are scheduled fairly, an exchange ends (creds.refresh returns or
\* raises), and time passes.
SpecFair ==
    /\ Init
    /\ [][Next]_vars
    /\ WF_vars(LoopStep)
    /\ WF_vars(\E d \in TickSteps : Tick(d))

-----------------------------------------------------------------------------
(* The dispatcher alone: every kind of request, on the event loop, while the *)
(* background thread does not run *)

\* the argument maps of the requests: collection and query missing, empty or
\* given, and any of the other arguments
ArgMaps ==
    {[k \in keys |-> IF k = "collection" THEN c
                     ELSE IF k = "query" THEN q
                     ELSE IF k = "limit" THEN "5"
                     ELSE IF k = "alpha" THEN "0.5"
                     ELSE IF k = "query_properties" THEN "['name']"
                     ELSE "['name', 'secret']"] :
        keys \in SUBSET {"collection", "query", "limit", "alpha",
                         "query_properties", "return_properties"},
        c \in {"''", "'Docs'"},
        q \in {"''", "'wind'"}}

ToolNames == TOOL_REGISTRY \cup {"drop_collection"}

NextDispatch ==
    \/ MaybeStartVertexOauthRefresher
    \/ \E name \in ToolNames, args \in ArgMaps : CallToolRequest(name, args)
    \/ Dispatch
    \/ DispatchResult
    \/ ConnectCheck
    \/ SyncResolve
    \/ SyncRefreshStart
    \/ SyncRefreshEnd
    \/ SyncCommit
    \/ SyncEnvGoogle
    \/ SyncEnvPalm
    \/ ConnectRead
    \/ ConnectHeaders
    \/ ConnectEnvPalm
    \/ ConnectClient
    \/ CheckConnectionBody
    \/ ListCollectionsBody
    \/ HybridSearchGet
    \/ UpdateCheck
    \/ UpdateRead
    \/ UpdateEnvGoogle
    \/ UpdateEnvPalm
    \/ HybridSearchQuery

SpecDispatch == Init /\ [][NextDispatch]_vars

-----------------------------------------------------------------------------
(* diagnose_vertex, called on the event loop *)

SAMPLE_LEN == 12

\* line 672: (creds.token[:12] + "...") if creds.token else None
TokenSample(token) ==
    IF Truthy(token) THEN Prefix(token, SAMPLE_LEN) \o "..." ELSE NONE

\* line 675: str(expiry) if expiry else None
TokenExpiry(expiry) == IF expiry.known THEN "expiry@" \o ToString(expiry.at) ELSE NONE

\* str(bool)
BoolStr(b) == IF b THEN "True" ELSE "False"

\* Tokens of other lengths than Token(n): the identity provider fixes no length.
\* Twelve characters, thirteen, and five.
OtherTokens == {"ya29.tok-012", "ya29.tok-0123", "ya29."}

\* what creds.refresh may leave in creds in diagnose_vertex
DiagnoseOutcomes(prov, t) ==
    RefreshOutcomes(prov, t)
    \cup {[raised |-> FALSE, token |-> tok, expiry |-> ExpiryOf(prov, t)] :
            tok \in OtherTokens}

\* diagnose_vertex lines 651-671: the first fields of info; with a key file,
\* creds.refresh(Request()) is invoked; without one, info is returned
DiagnoseVertexCall ==
    /\ h.pc = "idle"
    /\ main.start_calls >= 1
    /\ h.requests < MaxRequests
    /\ LET info == [f \in {"project_id", "oauth_enabled", "headers_active"} |->
                      IF f = "project_id"
                      THEN DiscoverGcpProject(environ, files, provider.adc_project)
                      ELSE IF f = "oauth_enabled" THEN BoolStr(OauthEnabled(environ))
                      ELSE BoolStr(DOMAIN VERTEX_HEADERS # {})]
           r == ResolveServiceAccountPath(environ, files, VERTEX_USER_PROJECT)
       IN /\ environ' = r.environ
          /\ VERTEX_USER_PROJECT' = r.user_project
          /\ IF Truthy(r.path)
             THEN /\ h' = [InitHandler EXCEPT !.pc = "diag_inflight",
                                              !.tool = "diagnose_vertex",
                                              !.requests = h.requests + 1,
                                              !.info = info]
                  /\ provider' = Invoke(provider, "handler")
             ELSE /\ h' = [InitHandler EXCEPT
                             !.pc = "diag_returned",
                             !.requests = h.requests + 1,
                             !.info = DictSet(DictSet(info, "token_sample", NONE),
                                              "token_expiry", NONE)]
                  /\ UNCHANGED provider
    /\ UNCHANGED <<files, VERTEX_HEADERS, VERTEX_REFRESH_THREAD_STARTED, main,
                   loop, client, now, ticks, log>>

\* diagnose_vertex lines 671-678: the exchange ends; token_sample and
\* token_expiry, or token_error, are added and info is returned
DiagnoseVertexEnd ==
    /\ h.pc = "diag_inflight"
    /\ \E o \in DiagnoseOutcomes(provider, now) :
         /\ provider' = Issue(provider, "handler", o)
         /\ h' = [h EXCEPT
                    !.pc = "diag_returned", !.tool = NONE,
                    !.info = IF o.raised
                             THEN DictSet(@, "token_error", EXC_REFRESH)
                             ELSE DictSet(DictSet(@, "token_sample", TokenSample(o.token)),
                                          "token_expiry", TokenExpiry(o.expiry))]
    /\ UNCHANGED <<environ, files, VERTEX_HEADERS, VERTEX_USER_PROJECT,
                   VERTEX_REFRESH_THREAD_STARTED, main, loop, client, now, ticks, log>>

NextDiagnose ==
    \/ \E d \in TickSteps : Tick(d)
    \/ MaybeStartVertexOauthRefresher
    \/ DiagnoseVertexCall
    \/ DiagnoseVertexEnd

SpecDiagnose == Init /\ [][NextDiagnose]_vars

-----------------------------------------------------------------------------
(* Claims *)

\* the number of the exchange that issued provider token t
Version(t) == CHOOSE n \in 1..provider.serial : Token(n) = t

IsProviderToken(t) == t \in DOMAIN provider.issued

HeaderToken == DictGet(client.headers, HDR_KEY)
MetaToken == DictGet(client.meta, META_KEY)

SyncPcs == {"sync_resolve", "sync_refresh", "sync_inflight", "sync_commit",
            "sync_env1", "sync_env2"}

\* C1: at most one token exchange (creds.refresh) is in flight at any time; a
\* refresh requested while another is in flight starts no second exchange.
C1_AtMostOneExchangeInFlight == Cardinality(provider.inflight) <= 1

\* a step of the background loop in an attempt that yields no token: the
\* exchange raised, or creds.token is None or empty
LoopStepWithoutToken ==
    /\ loop' # loop
    /\ \/ loop.pc = "l_inflight" /\ loop'.pc = "l_except"
       \/ loop.pc = "l_except"
       \/ loop.pc \in {"l_commit", "l_env1", "l_env2"} /\ ~Truthy(loop.token)

\* C2: once the cache holds a token, no step of a background attempt that
\* yields no token changes the cached credential _VERTEX_HEADERS.
C2_StaleOnFailure ==
    [][(LoopStepWithoutToken /\ CacheHasToken(VERTEX_HEADERS))
         => VERTEX_HEADERS' = VERTEX_HEADERS]_vars

\* the delay the claim states: min(expiry - now - 300, 3300), or 3300 when the
\* expiry is not known
ClaimedDelay(expiry, t) ==
    IF expiry.known THEN Min(expiry.at - t - REFRESH_MARGIN, FALLBACK_SLEEP)
    ELSE FALLBACK_SLEEP

\* C3: after a successful exchange the background loop sleeps
\* min(expiry - now - 300, 3300) seconds, 3300 when the expiry is not known.
C3_DelayIsClippedToCeiling ==
    [][(loop.pc = "l_env2" /\ loop'.pc = "l_sleep")
         => loop'.sleep_s = ClaimedDelay(loop.expiry, now)]_vars

\* the cached credential is there and fresh: its expiry is unknown, or more
\* than the margin away
CacheFresh ==
    /\ CacheHasToken(VERTEX_HEADERS)
    /\ LET e == provider.issued[VERTEX_HEADERS[HDR_KEY]]
       IN ~e.known \/ now < e.at - REFRESH_MARGIN

\* C4: whenever _connect finds the cached credential absent or no longer fresh
\* and no static token is configured, it refreshes synchronously.
C4_RefreshWhenNotFresh ==
    [][(/\ h.pc = "connect_check"
        /\ h'.pc # "connect_check"
        /\ ~Truthy(StaticToken(environ))
        /\ ~CacheFresh)
         => h'.pc = "sync_resolve"]_vars

\* C5: on every open client the token and the project id in the HTTP headers
\* equal the token and the project id in the gRPC metadata.
C5_HeadersMatchMetadata ==
    client.state = "open" =>
        /\ HeaderToken = MetaToken
        /\ DictGet(client.headers, HDR_PROJECT) = DictGet(client.meta, META_PROJECT)

\* C6: a tool call never reads the token of a later exchange from the cache
\* (into its headers, _connect line 229) and afterwards the token of an earlier
\* exchange (into its metadata, _update_client_grpc_metadata line 297).
C6_ReaderSeesMonotonicVersions ==
    (/\ client.state = "open"
     /\ IsProviderToken(HeaderToken)
     /\ IsProviderToken(MetaToken))
        => Version(MetaToken) >= Version(HeaderToken)

\* C7: with a static token configured no tool call enters
\* _sync_refresh_vertex_token or invokes creds.refresh, and the headers and the
\* gRPC metadata of its client carry the static token.
C7_StaticTokenBypassesExchange ==
    Truthy(StaticToken(environ)) =>
        /\ h.pc \notin SyncPcs
        /\ "handler" \notin provider.inflight
        /\ client.state = "open" =>
             /\ HeaderToken = StaticToken(environ)
             /\ MetaToken = StaticToken(environ)

\* the bearer tokens: those the provider issued and the static one
Secrets ==
    DOMAIN provider.issued
    \cup (IF Truthy(StaticToken(environ)) THEN {StaticToken(environ)} ELSE {})

\* C8: no line printed by the credential subsystem contains a full bearer token.
C8_NoFullTokenInLog ==
    \A who \in Threads : \A line \in log[who] : \A t \in Secrets :
        ~Contains(line, t)

REFRESH_ERROR_PREFIX == "[vertex-oauth] refresh error: "

LoopReportedFailure ==
    \E line \in log["loop"] :
        Prefix(line, Len(REFRESH_ERROR_PREFIX)) = REFRESH_ERROR_PREFIX

\* C9: every failure of a background attempt is printed and followed by the
\* fixed 60 s sleep, never by the end of the loop, and after the sleep the loop
\* makes another attempt (as long as the model's clock and attempt bounds allow).
C9_FailureBacksOffAndRetries ==
    /\ [](loop.pc = "l_backoff" => (loop.sleep_s = BACKOFF /\ LoopReportedFailure))
    /\ (loop.pc = "l_except" ~> loop.pc = "l_backoff")
    /\ ((loop.pc = "l_backoff" /\ ticks < MaxTicks /\ loop.attempts < MaxLoopAttempts)
          ~> loop.pc = "l_inflight")

\* C9 witness: after a reported failure and the backoff the loop is in its
\* next exchange.
C9_Witness ==
    /\ loop.pc = "l_inflight"
    /\ loop.attempts = 2
    /\ LoopReportedFailure

NoCommitInProgress ==
    /\ h.pc = "idle"
    /\ loop.pc \in {"unstarted", "l_returned", "l_sleep", "l_backoff"}

\* C11: once no commit is in progress (and no static token is configured), the
\* token in the cache _VERTEX_HEADERS is the token published in GOOGLE_APIKEY
\* and in PALM_APIKEY, whenever all three hold a token.
C11_CacheAndEnvironAgree ==
    (/\ NoCommitInProgress
     /\ ~Truthy(StaticToken(environ))
     /\ CacheHasToken(VERTEX_HEADERS)
     /\ Truthy(DictGet(environ, "GOOGLE_APIKEY"))
     /\ Truthy(DictGet(environ, "PALM_APIKEY")))
        => /\ DictGet(environ, "GOOGLE_APIKEY") = VERTEX_HEADERS[HDR_KEY]
           /\ DictGet(environ, "PALM_APIKEY") = VERTEX_HEADERS[HDR_KEY]

\* the header map one commit builds for token t
WholeHeaderMap(t) ==
    BuildVertexHeaderMap(t, VERTEX_USER_PROJECT, environ, files, provider.adc_project)

\* C12: the cache is always empty or the complete header map of one commit,
\* and a tool call that read a token from the cache, also while a commit by the
\* background loop is in progress, holds that commit's complete map: its
\* project entry is the one committed with the token.
C12_CommitIsAtomicToReaders ==
    /\ DOMAIN VERTEX_HEADERS # {}
         => VERTEX_HEADERS = WholeHeaderMap(VERTEX_HEADERS[HDR_KEY])
    /\ (/\ h.pc \in {"connect_env2", "connect_client"}
        /\ Truthy(h.vertex_token)
        /\ DictGet(VERTEX_HEADERS, HDR_KEY) = h.vertex_token)
         => h.headers = VERTEX_HEADERS
    /\ (/\ client.state = "open"
        /\ Truthy(HeaderToken)
        /\ DictGet(VERTEX_HEADERS, HDR_KEY) = HeaderToken)
         => client.headers = VERTEX_HEADERS

\* C12 witness: the tool call built its headers from the token it read from the
\* cache while the background loop was between line 734 and line 736.
C12_Witness ==
    /\ loop.pc = "l_env1"
    /\ Truthy(loop.token)
    /\ h.pc = "connect_env2"
    /\ h.vertex_token = loop.token
    /\ HDR_PROJECT \in DOMAIN h.headers

\* the tool body is at the statement that sends its request to the database
\* (client.is_ready(), collections.list_all(), coll.query.hybrid(...))
AboutToQuery == h.pc \in {"cc_ready", "lc_ready", "hs_query"}

\* C13: a tool call that acquired no credential sends no request to the
\* database: whenever a tool body is about to send its request, the headers or
\* the gRPC metadata of its client carry a token.
C13_NoRequestWithoutCredential ==
    AboutToQuery => (Truthy(HeaderToken) \/ Truthy(MetaToken))

\* the credential a commit publishes: the cache and the two environment variables
Published(headers, env) ==
    <<headers, DictGet(env, "GOOGLE_APIKEY"), DictGet(env, "PALM_APIKEY")>>

SYNC_COMMIT_PREFIX == "[vertex-oauth] sync token refresh"

\* C14: a call of _sync_refresh_vertex_token invokes creds.refresh at most
\* once; it reaches return True (line 190) only through the commit of line
\* 185, which replaces the cache with the header map of the non-empty token
\* just obtained; on the paths that return False (lines 167, 177, 182) no step
\* changes the cache, GOOGLE_APIKEY or PALM_APIKEY; and no step of it changes
\* the started flag or the background thread.
C14_SyncRefreshContract ==
    [][(h.pc \in SyncPcs /\ h' # h) =>
         /\ UNCHANGED <<VERTEX_REFRESH_THREAD_STARTED, loop, main>>
         /\ ("handler" \in provider'.inflight /\ "handler" \notin provider.inflight)
              => h.pc = "sync_refresh"
         /\ h.pc \in {"sync_inflight", "sync_commit", "sync_env1", "sync_env2"}
              => h'.pc \notin {"sync_resolve", "sync_refresh"}
         /\ h.pc \in {"sync_resolve", "sync_refresh", "sync_inflight"}
              => Published(VERTEX_HEADERS', environ') = Published(VERTEX_HEADERS, environ)
         /\ h.pc = "sync_commit"
              => /\ Truthy(h.token)
                 /\ h.token \in DOMAIN provider.issued
                 /\ VERTEX_HEADERS' = WholeHeaderMap(h.token)
         /\ h'.pc = "sync_env1" => h.pc = "sync_commit"
         /\ h'.pc = "sync_env2" => h.pc = "sync_env1"
         /\ (h.pc # "sync_env2" /\ h'.pc \notin SyncPcs)
              => h'.pc = SyncReturnPc(h.ret, FALSE)
         /\ (h.pc = "sync_env2" /\ h'.pc \notin SyncPcs)
              => h'.pc = SyncReturnPc(h.ret, TRUE)]_vars

\* C14 witness: _update_client_grpc_metadata got True from the on-demand
\* refresh, whose commit is in the cache.
C14_Witness ==
    /\ h.pc = "update_read"
    /\ CacheHasToken(VERTEX_HEADERS)
    /\ \E line \in log["handler"] :
         Prefix(line, Len(SYNC_COMMIT_PREFIX)) = SYNC_COMMIT_PREFIX

\* the project id the inline JSON credential blob names, if any
BlobProject ==
    LET gac_json == DictGet(environ, "GOOGLE_APPLICATION_CREDENTIALS_JSON")
    IN IF Truthy(gac_json) THEN DictGet(JsonLoads(gac_json), "project_id") ELSE NONE

\* C15: whenever GOOGLE_APPLICATION_CREDENTIALS_JSON names a project id, that
\* is the project id of the cached header map and of the headers and gRPC
\* metadata of every client that carries a token.
C15_InlineBlobProjectWins ==
    Truthy(BlobProject) =>
        /\ DOMAIN VERTEX_HEADERS # {}
             => DictGet(VERTEX_HEADERS, HDR_PROJECT) = BlobProject
        /\ (client.state = "open" /\ Truthy(HeaderToken))
             => DictGet(client.headers, HDR_PROJECT) = BlobProject
        /\ (client.state = "open" /\ Truthy(MetaToken))
             => DictGet(client.meta, META_PROJECT) = BlobProject

\* C16: in the snapshot diagnose_vertex returns, no field contains the token
\* the exchange issued: token_sample shows a prefix of at most 12 characters
\* and never the whole token.
C16_SnapshotHidesToken ==
    h.pc = "diag_returned" =>
        \A t \in DOMAIN provider.issued : \A f \in DOMAIN h.info :
            ~Contains(h.info[f], t)

\* C17: within one request the body of the tool is entered at most once.
C17_BodyRunsAtMostOnce == h.runs <= 1

\* the step in which _call_tool_request returns
DispatcherReturns == h.pc # "idle" /\ h'.pc = "idle"

\* C18: every return of _call_tool_request carries a result; an unknown name is
\* answered with the isError result "Unknown tool: <name>", no tool entered
\* and nothing but the dispatcher's frame changed; a request in which the tool
\* raised an exception ends in an isError result; and a value that is not a
\* dict is wrapped as {"result": value}.
C18_DispatcherIsTotal ==
    [][DispatcherReturns =>
         /\ h'.result.text # ""
         /\ h.name \notin TOOL_REGISTRY
              => /\ h'.result = ErrorResult("Unknown tool: " \o h.name)
                 /\ h.runs = 0
                 /\ UNCHANGED <<environ, files, VERTEX_HEADERS, VERTEX_USER_PROJECT,
                                VERTEX_REFRESH_THREAD_STARTED, main, loop, client,
                                provider, now, ticks, log>>
         /\ (h.exc # NoException \/ h.runs > 1) => h'.result.isError
         /\ (h.exc = NoException /\ h.runs >= 1 /\ h.value.type # "dict")
              => h'.result.structuredContent
                   = DictValue("{'result': " \o h.value.repr \o "}")]_vars

\* C19: once the tool body has returned or raised, its client is not open, and
\* an open client is never replaced or dropped without being closed.
C19_ClientsAreClosed ==
    /\ [](h.pc \in {"idle", "call_tool", "tool_done"} => client.state # "open")
    /\ [][client.state = "open" => client'.state \in {"open", "closed"}]_vars

\* C19 witness: the request to the database raised and the client is closed.
C19_Witness ==
    /\ h.pc = "tool_done"
    /\ h.exc # NoException
    /\ h.runs >= 1
    /\ client.state = "closed"

\* the step in which the dispatcher handles a hybrid_search request
DispatchesHybridSearch ==
    /\ h.pc = "call_tool"
    /\ h'.pc # "call_tool"
    /\ h.name = "hybrid_search"

\* C20: a hybrid_search request without a query, or with an empty one, is
\* answered at once with an isError result: the tool is not entered, no client
\* is created and the environment, the cache and the project are left alone.
\* Otherwise the tool is entered once, with collection, query and those of
\* limit, alpha and query_properties that the request has, each with the
\* request's value, except that a missing or empty collection is 'WindBilance';
\* return_properties is not passed.
C20_HybridSearchArgumentsAreCleaned ==
    [][DispatchesHybridSearch =>
         IF "query" \notin DOMAIN h.args \/ h.args["query"] = "''"
         THEN /\ h'.pc = "idle"
              /\ h'.result.isError
              /\ h.runs = 0
              /\ UNCHANGED <<environ, files, VERTEX_HEADERS, VERTEX_USER_PROJECT,
                             client, provider>>
         ELSE /\ h'.pc = "connect_check"
              /\ h'.tool = "hybrid_search"
              /\ h'.runs = 1
              /\ DOMAIN h'.kwargs
                    = {"collection", "query"}
                        \cup ({"limit", "alpha", "query_properties"} \cap DOMAIN h.args)
              /\ "return_properties" \notin DOMAIN h'.kwargs
              /\ \A k \in DOMAIN h'.kwargs \ {"collection"} : h'.kwargs[k] = h.args[k]
              /\ h'.kwargs["collection"]
                    = IF "collection" \in DOMAIN h.args /\ h.args["collection"] # "''"
                      THEN h.args["collection"]
                      ELSE "'WindBilance'"]_vars

\* C20 witness: the request came with an empty collection, a query, a limit and
\* return_properties, as the dispatcher printed it, and the tool was entered
\* with the collection WindBilance, the query and the limit.
C20_Witness ==
    /\ h.pc = "connect_check"
    /\ h.name = "hybrid_search"
    /\ h.runs = 1
    /\ ("[call_tool] hybrid_search called with: "
          \o PyRepr([collection |-> "''", query |-> "'wind'", limit |-> "5",
                     return_properties |-> "['name', 'secret']"])) \in log["handler"]
    /\ h.kwargs = [collection |-> "'WindBilance'", query |-> "'wind'", limit |-> "5"]

====
